---- MODULE Spec2Model ----
(***************************************************************************)
(* Model of the synthetic e-commerce pipeline: scripts/generate_data.py,   *)
(* scripts/ingest_data.py, scripts/query_data.py, scripts/run_pipeline.py. *)
(*                                                                         *)
(* Conventions                                                             *)
(*  - A money string with two decimals ("79.99") is the integer number of  *)
(*    cents it denotes (7999).                                             *)
(*  - A Python float / SQLite REAL is an IEEE-754 binary64 value v, kept   *)
(*    exactly as the integer v * 2^48 in three limbs of 20 bits            *)
(*    <<hi, mid, lo>>.  Every value the programs compute is 0 or lies in   *)
(*    [16, 2^22), so it is a multiple of 2^-48 and the representation is   *)
(*    exact; each operation rounds to 53 significant bits, ties to even.   *)
(*  - Every random.* call is a nondeterministic choice over its range.     *)
(***************************************************************************)
EXTENDS Integers, Sequences, FiniteSets, TLC

(***************************************************************************)
(* binary64 arithmetic                                                     *)
(***************************************************************************)
Limb == 1024 * 1024

RECURSIVE Pow2(_)
Pow2(n) == IF n = 0 THEN 1 ELSE 2 * Pow2(n - 1)

RECURSIVE Log2(_)
Log2(n) == IF n < 2 THEN 0 ELSE 1 + Log2(n \div 2)

FZero == <<0, 0, 0>>

\* Carry propagation of limb values that may exceed one limb.
FNorm(h, m, l) ==
    LET m2 == m + (l \div Limb)
    IN  <<h + (m2 \div Limb), m2 % Limb, l % Limb>>

\* Number of low bits of v * 2^48 that do not fit in the 53-bit significand.
FShift(f) == IF f[1] < 4096 THEN 0 ELSE Log2(f[1]) - 12

\* Round an exact value f + frac (frac: 0 none, 1 below half a unit of 2^-48,
\* 2 exactly half, 3 above half) to the nearest binary64, ties to even.
FRound(f, frac) ==
    LET s    == FShift(f)
        unit == Pow2(s)
        low  == f[3] % unit
        base == <<f[1], f[2], f[3] - low>>
        odd  == IF s = 20 THEN f[2] % 2 = 1 ELSE (f[3] \div unit) % 2 = 1
        \* compare low + frac/4 with unit/2
        cmp  == IF s = 0
                  THEN (IF frac = 3 THEN 1 ELSE IF frac = 2 THEN 0 ELSE -1)
                  ELSE (IF 2 * low > unit THEN 1
                        ELSE IF 2 * low < unit THEN -1
                        ELSE IF frac > 0 THEN 1 ELSE 0)
        up   == cmp = 1 \/ (cmp = 0 /\ odd)
    IN  IF low = 0 /\ frac = 0 THEN f
        ELSE IF up THEN FNorm(base[1], base[2], base[3] + unit)
        ELSE base

\* float("d.dd"): the binary64 nearest to cents / 100.
ParseFloat(cents) ==
    LET h0 == cents * 256
        qh == h0 \div 100
        r1 == h0 % 100
        qm == (r1 * Limb) \div 100
        r2 == (r1 * Limb) % 100
        ql == (r2 * Limb) \div 100
        r3 == (r2 * Limb) % 100
        frac == IF r3 = 0 THEN 0 ELSE IF 2 * r3 < 100 THEN 1
                ELSE IF 2 * r3 = 100 THEN 2 ELSE 3
    IN  FRound(<<qh, qm, ql>>, frac)

\* float * int.
FMulInt(f, q) == FRound(FNorm(f[1] * q, f[2] * q, f[3] * q), 0)

\* float + float.
FAdd(a, b) == FRound(FNorm(a[1] + b[1], a[2] + b[2], a[3] + b[3]), 0)

\* Variant of FormatCents that truncates to whole cents instead of rounding.
FormatCentsFloor(f) == (f[1] * 100 + (f[2] * 100 + (f[3] * 100) \div Limb) \div Limb) \div 256

\* f"{x:.2f}": the decimal with two places nearest to x, ties to even,
\* as the number of cents.
FormatCents(f) ==
    LET w0  == (f[3] * 100) % Limb
        c0  == (f[3] * 100) \div Limb
        w1  == (f[2] * 100 + c0) % Limb
        c1  == (f[2] * 100 + c0) \div Limb
        top == f[1] * 100 + c1
        c   == top \div 256
        fh  == top % 256
        up  == fh > 128 \/ (fh = 128 /\ (w1 # 0 \/ w0 # 0))
        tie == fh = 128 /\ w1 = 0 /\ w0 = 0
    IN  IF up \/ (tie /\ c % 2 = 1) THEN c + 1 ELSE c

(***************************************************************************)
(* generate_data.py: vocabularies                                          *)
(***************************************************************************)
CITIES == <<"New York", "San Francisco", "Chicago", "Austin", "Seattle", "Boston">>

FIRST_NAMES ==
    <<"Alex", "Jordan", "Taylor", "Riley", "Casey", "Morgan", "Jamie", "Avery",
      "Reese", "Skyler", "Parker", "Rowan", "Hayden", "Quinn", "Elliot">>

LAST_NAMES ==
    <<"Smith", "Johnson", "Williams", "Brown", "Jones", "Garcia", "Miller",
      "Davis", "Lopez", "Gonzalez", "Wilson", "Anderson", "Thomas", "Jackson",
      "Martinez">>

\* Each price is the float literal of the source, written as its cents.
PRODUCT_CATEGORIES ==
    << <<"Electronics",
         << <<"Wireless Earbuds", 7999>>, <<"Smartphone Case", 1999>>,
            <<"Bluetooth Speaker", 4999>>, <<"Portable Charger", 3999>>,
            <<"Smartwatch", 12999>> >> >>,
       <<"Home",
         << <<"Ceramic Mug Set", 2499>>, <<"Throw Blanket", 3499>>,
            <<"LED Desk Lamp", 4550>>, <<"Aromatherapy Diffuser", 2999>>,
            <<"Indoor Plant Kit", 2749>> >> >>,
       <<"Fitness",
         << <<"Yoga Mat", 3200>>, <<"Resistance Bands", 2150>>,
            <<"Insulated Water Bottle", 2500>>, <<"Foam Roller", 2875>>,
            <<"Adjustable Dumbbell", 19900>> >> >>,
       <<"Books",
         << <<"Productivity Planner", 1895>>, <<"Design Thinking Guide", 2200>>,
            <<"Modern Cooking", 3000>>, <<"Mindfulness Workbook", 1650>>,
            <<"Startup Playbook", 2600>> >> >> >>

COMMENTS ==
    <<"Loved it! Highly recommend.",
      "Works as expected. Would buy again.",
      "Quality could be better, but good value overall.",
      "Fantastic customer service and fast shipping.",
      "Not satisfied with the durability.",
      "Exceeded my expectations!",
      "Makes daily life so much easier.",
      "Gifted it to a friend and they loved it.",
      "Helpful addition to my routine.",
      "Packaging was damaged, but product is fine.">>

\* str.lower() on the entries of the name pools.
Lower ==
    ("Alex" :> "alex" @@ "Jordan" :> "jordan" @@ "Taylor" :> "taylor" @@
     "Riley" :> "riley" @@ "Casey" :> "casey" @@ "Morgan" :> "morgan" @@
     "Jamie" :> "jamie" @@ "Avery" :> "avery" @@ "Reese" :> "reese" @@
     "Skyler" :> "skyler" @@ "Parker" :> "parker" @@ "Rowan" :> "rowan" @@
     "Hayden" :> "hayden" @@ "Quinn" :> "quinn" @@ "Elliot" :> "elliot" @@
     "Smith" :> "smith" @@ "Johnson" :> "johnson" @@
     "Williams" :> "williams" @@ "Brown" :> "brown" @@ "Jones" :> "jones" @@
     "Garcia" :> "garcia" @@ "Miller" :> "miller" @@ "Davis" :> "davis" @@
     "Lopez" :> "lopez" @@ "Gonzalez" :> "gonzalez" @@ "Wilson" :> "wilson" @@
     "Anderson" :> "anderson" @@ "Thomas" :> "thomas" @@
     "Jackson" :> "jackson" @@ "Martinez" :> "martinez")

(***************************************************************************)
(* Bounds and draw ranges                                                  *)
(***************************************************************************)
\* generate_customers(count): count ranges over 1..MaxCustomers.
MaxCustomers == 2

\* Loop bound of generate_reviews and the ranges of the random.randint calls.
ReviewAttempts == 28
OrdersPerCustomerMax == 3
ItemCountMax == 4
QuantityMax == 3
RatingMax == 5
DaysBack == 120
HoursMax == 23

Range(s) == {s[i] : i \in DOMAIN s}

\* Variant of Perms that samples with replacement.
PermsWithRepeats(S, k) == [1..k -> S]

RECURSIVE Perms(_, _)
\* The outcomes of random.sample over the positions S: the sequences of k
\* pairwise distinct members of S.
Perms(S, k) ==
    IF k = 0 THEN {<<>>}
    ELSE UNION {{<<x>> \o p : p \in Perms(S \ {x}, k - 1)} : x \in S}

(***************************************************************************)
(* generate_data.py: calendar                                              *)
(***************************************************************************)
\* datetime.strftime("%Y-%m-%d") of the day `days` days after 1970-01-01,
\* as <<year, month, day>>.
strftime(days) ==
    LET z   == days + 719468
        era == z \div 146097
        doe == z - era * 146097
        yoe == (doe - doe \div 1460 + doe \div 36524 - doe \div 146096) \div 365
        doy == doe - (365 * yoe + yoe \div 4 - yoe \div 100)
        mp  == (5 * doy + 2) \div 153
        d   == doy - (153 * mp + 2) \div 5 + 1
        m   == IF mp < 10 THEN mp + 3 ELSE mp - 9
        y   == yoe + era * 400 + (IF m <= 2 THEN 1 ELSE 0)
    IN  <<y, m, d>>

\* daterange(): base_date - timedelta(days, hours); a datetime is its number
\* of whole hours since 1970-01-01T00:00 (minutes are untouched by the
\* subtraction and dropped by strftime).
daterange(now, delta_days, hours) == now - (24 * delta_days + hours)

(***************************************************************************)
(* generate_data.py: entity generation                                     *)
(***************************************************************************)
\* Body of the loop of generate_customers for idx = Len(customers).
customer_row(idx, first, last, city) ==
    [customer_id |-> idx + 1,
     name        |-> first \o " " \o last,
     email       |-> Lower[first] \o "." \o Lower[last] \o "@example.com",
     city        |-> city]

RECURSIVE category_rows(_, _, _)
\* Inner loop of generate_products over one category's items.
category_rows(category, items, product_id) ==
    IF items = <<>> THEN <<>>
    ELSE <<[product_id |-> product_id,
            name       |-> Head(items)[1],
            category   |-> category,
            price      |-> FormatCents(ParseFloat(Head(items)[2]))]>>
         \o category_rows(category, Tail(items), product_id + 1)

RECURSIVE catalog_rows(_, _)
\* Outer loop of generate_products over the categories in declaration order.
catalog_rows(cats, product_id) ==
    IF cats = <<>> THEN <<>>
    ELSE category_rows(Head(cats)[1], Head(cats)[2], product_id)
         \o catalog_rows(Tail(cats), product_id + Len(Head(cats)[2]))

generate_products == catalog_rows(PRODUCT_CATEGORIES, 1)

\* product_lookup of generate_orders.
product_lookup(products) ==
    [pid \in {products[i].product_id : i \in DOMAIN products} |->
        ParseFloat((CHOOSE p \in Range(products) : p.product_id = pid).price)]

(***************************************************************************)
(* generate_data.py: one run of main(), as a record                        *)
(*   pc            position in main()                                      *)
(*   count         argument of generate_customers                          *)
(*   now           the last reading of datetime.now() (the start of the    *)
(*                 process, then one reading per order), in hours since    *)
(*                 1970-01-01T00:00                                        *)
(*   cust_idx      customers already visited by the loop of generate_orders*)
(*   orders_left   iterations left of `for _ in range(customer_orders)`    *)
(*   attempt       iterations done of `for _ in range(28)`                 *)
(*   files         the five CSV files of DATA_DIR; NoFiles before they     *)
(*                 are written (a file that does not exist is <<>>)        *)
(***************************************************************************)
NoFiles ==
    [customers |-> <<>>, products |-> <<>>, orders |-> <<>>,
     order_items |-> <<>>, reviews |-> <<>>]

NewRun(count, now) ==
    [pc |-> "customers", count |-> count, now |-> now,
     customers |-> <<>>, products |-> <<>>,
     orders |-> <<>>, order_items |-> <<>>, reviews |-> <<>>,
     order_id |-> 0, order_item_id |-> 0, review_id |-> 0,
     cust_idx |-> 0, orders_left |-> 0,
     attempt |-> 0, customer_product_pairs |-> {},
     files |-> NoFiles]

\* generate_customers: one iteration of `for idx in range(count)`.
customers_step(g, first, last, city) ==
    [g EXCEPT !.customers = Append(@, customer_row(Len(@), first, last, city))]

\* main: products = generate_products(), then entry of generate_orders.
products_step(g) ==
    [g EXCEPT !.products = generate_products,
              !.orders = <<>>, !.order_items = <<>>,
              !.order_id = 1, !.order_item_id = 1,
              !.cust_idx = 0, !.orders_left = 0,
              !.pc = "orders"]

\* generate_orders: `for customer in customers: customer_orders = randint(0, 3)`.
next_customer_step(g, customer_orders) ==
    [g EXCEPT !.cust_idx = @ + 1, !.orders_left = customer_orders]

\* Variant of order_lines that numbers the order one ahead.
order_lines_ahead(g, chosen, quantity) ==
    [i \in 1..Len(chosen) |->
        [order_item_id |-> g.order_item_id + (i - 1),
         order_id      |-> g.order_id + 1,
         product_id    |-> g.products[chosen[i]].product_id,
         quantity      |-> quantity[i]]]

\* The items list built by `for product in chosen_products`.
order_lines(g, chosen, quantity) ==
    [i \in 1..Len(chosen) |->
        [order_item_id |-> g.order_item_id + (i - 1),
         order_id      |-> g.order_id,
         product_id    |-> g.products[chosen[i]].product_id,
         quantity      |-> quantity[i]]]

RECURSIVE order_subtotal(_, _, _)
\* subtotal after the loop over the items: subtotal += product_lookup[pid] * quantity.
order_subtotal(lookup, items, subtotal) ==
    IF items = <<>> THEN subtotal
    ELSE order_subtotal(lookup, Tail(items),
             FAdd(subtotal, FMulInt(lookup[Head(items).product_id],
                                    Head(items).quantity)))

\* Variant of order_step that does not advance order_id.
order_step_stuck(g, now, delta_days, hours, chosen, quantity) ==
    LET items    == order_lines(g, chosen, quantity)
        subtotal == order_subtotal(product_lookup(g.products), items, FZero)
        order    == [order_id     |-> g.order_id,
                     customer_id  |-> g.customers[g.cust_idx].customer_id,
                     order_date   |-> strftime(daterange(now, delta_days, hours) \div 24),
                     total_amount |-> FormatCents(subtotal)]
    IN  [g EXCEPT !.now = now,
                  !.orders = Append(@, order),
                  !.order_items = @ \o items,
                  !.order_item_id = @ + Len(items),
                  !.orders_left = @ - 1]

\* generate_orders: one iteration of `for _ in range(customer_orders)`.
\* now is what datetime.now() returns inside this iteration's daterange()
\* call; chosen is random.sample(products, item_count) as positions in
\* products.
order_step(g, now, delta_days, hours, chosen, quantity) ==
    LET order_date == daterange(now, delta_days, hours)
        items      == order_lines(g, chosen, quantity)
        subtotal   == order_subtotal(product_lookup(g.products), items, FZero)
        order      == [order_id     |-> g.order_id,
                       customer_id  |-> g.customers[g.cust_idx].customer_id,
                       order_date   |-> strftime(order_date \div 24),
                       total_amount |-> FormatCents(subtotal)]
    IN  [g EXCEPT !.now = now,
                  !.orders = Append(@, order),
                  !.order_items = @ \o items,
                  !.order_item_id = @ + Len(items),
                  !.order_id = @ + 1,
                  !.orders_left = @ - 1]

\* main: return of generate_orders, entry of generate_reviews.
orders_return(g) ==
    [g EXCEPT !.reviews = <<>>, !.review_id = 1, !.attempt = 0,
              !.customer_product_pairs = {}, !.pc = "reviews"]

\* Variant of review_step without the customer_product_pairs test.
review_step_nodedup(g, c, p, rating, comment) ==
    [g EXCEPT !.attempt = @ + 1,
              !.reviews = Append(@,
                  [review_id   |-> g.review_id,
                   customer_id |-> g.customers[c].customer_id,
                   product_id  |-> g.products[p].product_id,
                   rating      |-> rating,
                   comment     |-> comment]),
              !.review_id = @ + 1]

\* generate_reviews: one iteration of `for _ in range(28)`; c and p are the
\* positions random.choice returns, rating and comment are drawn only when
\* the pair is new.
review_step(g, c, p, rating, comment) ==
    LET customer == g.customers[c]
        product  == g.products[p]
        key      == <<customer.customer_id, product.product_id>>
    IN  IF key \in g.customer_product_pairs
          THEN [g EXCEPT !.attempt = @ + 1]
          ELSE [g EXCEPT !.attempt = @ + 1,
                         !.customer_product_pairs = @ \cup {key},
                         !.reviews = Append(@,
                             [review_id   |-> g.review_id,
                              customer_id |-> customer.customer_id,
                              product_id  |-> product.product_id,
                              rating      |-> rating,
                              comment     |-> comment]),
                         !.review_id = @ + 1]

(***************************************************************************)
(* CSV files: a file is <<header, row, ...>>, each row the tuple of its    *)
(* fields in header order; an integer field is the sequence of its decimal *)
(* digits.                                                                 *)
(***************************************************************************)
RECURSIVE Str(_)
\* str(n) for n >= 0.
Str(n) == IF n < 10 THEN <<n>> ELSE Append(Str(n \div 10), n % 10)

RECURSIVE ParseInt(_)
\* int(s) for a digit string.
ParseInt(s) == IF Len(s) = 1 THEN s[1]
               ELSE 10 * ParseInt(SubSeq(s, 1, Len(s) - 1)) + s[Len(s)]

CustomerFields  == <<"customer_id", "name", "email", "city">>
ProductFields   == <<"product_id", "name", "category", "price">>
OrderFields     == <<"order_id", "customer_id", "order_date", "total_amount">>
OrderItemFields == <<"order_item_id", "order_id", "product_id", "quantity">>
ReviewFields    == <<"review_id", "customer_id", "product_id", "rating", "comment">>

IntFields ==
    {"customer_id", "product_id", "order_id", "order_item_id", "review_id",
     "quantity", "rating"}

\* write_csv: header, then one line per row with str() of each field.
write_csv(fieldnames, rows) ==
    <<fieldnames>> \o
    [i \in 1..Len(rows) |->
        [k \in 1..Len(fieldnames) |->
            IF fieldnames[k] \in IntFields
              THEN Str(rows[i][fieldnames[k]])
              ELSE rows[i][fieldnames[k]]]]

\* main: the five write_csv calls.
write_step(g) ==
    [g EXCEPT !.files =
                 [customers   |-> write_csv(CustomerFields, g.customers),
                  products    |-> write_csv(ProductFields, g.products),
                  orders      |-> write_csv(OrderFields, g.orders),
                  order_items |-> write_csv(OrderItemFields, g.order_items),
                  reviews     |-> write_csv(ReviewFields, g.reviews)],
              !.pc = "done"]

(***************************************************************************)
(* ingest_data.py.  A table is the set of its rows, each row the tuple     *)
(* cast_row returns; the store is the five tables.  SQLite semantics of    *)
(* the statements the script issues: INSERT OR REPLACE first deletes the   *)
(* rows that collide on the primary key or on a UNIQUE column, and with    *)
(* PRAGMA foreign_keys = ON the statement fails when it leaves a row whose *)
(* foreign key matches no parent row.                                      *)
(***************************************************************************)
TABLES == <<"customers", "products", "orders", "order_items", "reviews">>

EmptyTables ==
    [customers |-> {}, products |-> {}, orders |-> {}, order_items |-> {},
     reviews |-> {}]

\* DATA_DIR (dir: whether the directory exists) and the database file
\* DB_PATH in it: absent, or the committed tables.  NoDir is a checkout in
\* which no script has run; NoDb the directory without database file.
NoDir == [dir |-> FALSE, exists |-> FALSE, tables |-> EmptyTables]

NoDb == [dir |-> TRUE, exists |-> FALSE, tables |-> EmptyTables]

\* generate_data.py, at import: DATA_DIR.mkdir(parents=True, exist_ok=True).
mkdir(db) == [db EXCEPT !.dir = TRUE]

\* load_csv_rows: csv.DictReader, one dict per line after the header.
load_csv_rows(file) ==
    [i \in 1..(Len(file) - 1) |->
        [name \in Range(file[1]) |->
            file[i + 1][CHOOSE k \in DOMAIN file[1] : file[1][k] = name]]]

cast_row(table, row) ==
    CASE table = "customers" ->
            <<ParseInt(row.customer_id), row.name, row.email, row.city>>
      [] table = "products" ->
            <<ParseInt(row.product_id), row.name, row.category,
              ParseFloat(row.price)>>
      [] table = "orders" ->
            <<ParseInt(row.order_id), ParseInt(row.customer_id),
              row.order_date, ParseFloat(row.total_amount)>>
      [] table = "order_items" ->
            <<ParseInt(row.order_item_id), ParseInt(row.order_id),
              ParseInt(row.product_id), ParseInt(row.quantity)>>
      [] table = "reviews" ->
            <<ParseInt(row.review_id), ParseInt(row.customer_id),
              ParseInt(row.product_id), ParseInt(row.rating), row.comment>>

Keys(rows) == {r[1] : r \in rows}

\* The FOREIGN KEY clauses of TABLE_DEFINITIONS.
ForeignKeysHold(t) ==
    /\ \A o \in t.orders : o[2] \in Keys(t.customers)
    /\ \A i \in t.order_items :
          i[2] \in Keys(t.orders) /\ i[3] \in Keys(t.products)
    /\ \A r \in t.reviews :
          r[2] \in Keys(t.customers) /\ r[3] \in Keys(t.products)

\* The rows an INSERT OR REPLACE of r deletes: same INTEGER PRIMARY KEY, or
\* same email in customers (email TEXT NOT NULL UNIQUE).
Collisions(table, rows, r) ==
    {x \in rows : x[1] = r[1] \/ (table = "customers" /\ x[3] = r[3])}

\* One INSERT OR REPLACE INTO table VALUES (...).
insert_or_replace(t, table, r) ==
    LET after == [t EXCEPT ![table] = (@ \ Collisions(table, @, r)) \cup {r}]
    IN  IF ForeignKeysHold(after)
          THEN [ok |-> TRUE, tables |-> after]
          ELSE [ok |-> FALSE, tables |-> t]

RECURSIVE executemany(_, _, _)
\* conn.executemany(sql, casted_rows): stops at the first failing row.
executemany(t, table, casted_rows) ==
    IF casted_rows = <<>> THEN [ok |-> TRUE, tables |-> t]
    ELSE LET res == insert_or_replace(t, table, Head(casted_rows))
         IN  IF res.ok THEN executemany(res.tables, table, Tail(casted_rows))
             ELSE res

\* insert_rows(conn, table, rows).
insert_rows(t, table, rows) ==
    IF rows = <<>> THEN [ok |-> TRUE, tables |-> t]
    ELSE executemany(t, table,
                     [i \in 1..Len(rows) |-> cast_row(table, rows[i])])

\* main: one iteration of `for table, csv_path in mapping.items()`;
\* load_csv_rows raises FileNotFoundError on a file that does not exist.
load_table(t, table, file) ==
    IF file = <<>> THEN [ok |-> FALSE, tables |-> t]
    ELSE insert_rows(t, table, load_csv_rows(file))

RECURSIVE load_all(_, _, _)
\* main: the loop over mapping.items() from table number i on.
load_all(t, i, files) ==
    IF i > Len(TABLES) THEN [ok |-> TRUE, tables |-> t]
    ELSE LET res == load_table(t, TABLES[i], files[TABLES[i]])
         IN  IF res.ok THEN load_all(res.tables, i + 1, files) ELSE res

\* The tables main() leaves when it starts without a database file: the
\* loaded rows after conn.commit(), the empty tables after an exception.
fresh_ingest(files) ==
    LET res == load_all(EmptyTables, 1, files)
    IN  IF res.ok THEN res.tables ELSE EmptyTables

\* Variant of unlink that leaves the database file in place.
unlink_keep(db) == db

\* main: DB_PATH.unlink(missing_ok=True); no error when the file or its
\* directory is missing.
unlink(db) == [db EXCEPT !.exists = FALSE, !.tables = EmptyTables]

\* main: sqlite3.connect(DB_PATH) and the CREATE TABLE IF NOT EXISTS
\* statements, which commit at once.  connect creates the file, never its
\* directory: without DATA_DIR it raises OperationalError.
create_tables(db) ==
    [db EXCEPT !.exists = TRUE,
               !.tables = IF db.exists THEN db.tables ELSE EmptyTables]

(***************************************************************************)
(* query_data.py                                                           *)
(***************************************************************************)
RECURSIVE SeqOfKeys(_)
\* The members of a set of integers in increasing order.
SeqOfKeys(S) ==
    IF S = {} THEN <<>>
    ELSE LET m == CHOOSE x \in S : \A y \in S : x <= y
         IN  <<m>> \o SeqOfKeys(S \ {m})

RECURSIVE sum_units(_, _)
\* SUM(oi.quantity) over the joined rows of one product, in rowid order.
sum_units(item_ids, items) ==
    IF item_ids = <<>> THEN 0
    ELSE (CHOOSE i \in items : i[1] = Head(item_ids))[4]
         + sum_units(Tail(item_ids), items)

RECURSIVE sum_revenue(_, _, _, _)
\* SUM(oi.quantity * p.price) over the joined rows of one product.
sum_revenue(item_ids, items, price, acc) ==
    IF item_ids = <<>> THEN acc
    ELSE sum_revenue(Tail(item_ids), items, price,
             FAdd(acc, FMulInt(price,
                 (CHOOSE i \in items : i[1] = Head(item_ids))[4])))

\* The grouped rows of top_products_by_revenue before ORDER BY and LIMIT:
\* one row per product that some order item joins to.  ROUND(x, 2) is the
\* number of cents.
revenue_rows(t) ==
    {LET ids == SeqOfKeys({i[1] : i \in {x \in t.order_items : x[3] = p[1]}})
     IN  [product_id |-> p[1], name |-> p[2], category |-> p[3],
          units_sold |-> sum_units(ids, t.order_items),
          revenue    |-> FormatCents(sum_revenue(ids, t.order_items, p[4], FZero))]
     : p \in {q \in t.products : \E i \in t.order_items : i[3] = q[1]}}

RECURSIVE order_by_revenue_asc(_, _)
\* Variant of order_by_revenue that sorts by revenue ascending.
order_by_revenue_asc(rows, first) ==
    IF rows = {} THEN <<>>
    ELSE LET low == {r \in rows : \A x \in rows : r.revenue <= x.revenue}
             r   == CHOOSE r \in low : \A x \in low : r.product_id <= x.product_id
         IN  <<r>> \o order_by_revenue_asc(rows \ {r}, first)

RECURSIVE order_by_revenue(_, _)
\* ORDER BY revenue DESC; SQLite leaves the order of rows of equal revenue
\* open, `first` says which of them comes first.
order_by_revenue(rows, first) ==
    IF rows = {} THEN <<>>
    ELSE LET top == {r \in rows : \A x \in rows : x.revenue <= r.revenue}
             r   == CHOOSE r \in top :
                       \A x \in top :
                          IF first = "low" THEN r.product_id <= x.product_id
                          ELSE r.product_id >= x.product_id
         IN  <<r>> \o order_by_revenue(rows \ {r}, first)

TopLimit == 10

\* top_products_by_revenue: the rows conn.execute(query).fetchall() returns.
top_products_by_revenue(t, first) ==
    LET sorted == order_by_revenue(revenue_rows(t), first)
    IN  SubSeq(sorted, 1, IF Len(sorted) < TopLimit THEN Len(sorted) ELSE TopLimit)

(***************************************************************************)
(* run_pipeline.py                                                         *)
(***************************************************************************)
STAGES == {"generate", "ingest", "query", "all"}

\* The script files SCRIPTS_DIR may hold.
SCRIPTS == {"generate_data.py", "ingest_data.py", "query_data.py"}

\* main / run_all: the scripts a stage runs, in call order.
scripts_of(stage) ==
    CASE stage = "generate" -> <<"generate_data.py">>
      [] stage = "ingest"   -> <<"ingest_data.py">>
      [] stage = "query"    -> <<"query_data.py">>
      [] stage = "all"      -> <<"generate_data.py", "ingest_data.py", "query_data.py">>

\* run_script: FileNotFoundError, and the end of main, when the script file
\* does not exist; otherwise the child process starts.
run_script(c, script) ==
    IF script \notin c.present
      THEN [c EXCEPT !.pc = "failed"]
      ELSE [c EXCEPT !.started = Append(@, script), !.pc = "wait"]

\* Variant of after_exit that ignores the exit status (check=False).
after_exit_unchecked(c, code) ==
    [c EXCEPT !.exits = Append(@, code), !.todo = Tail(@),
              !.pc = IF Len(c.todo) = 1 THEN "ok" ELSE "run"]

\* subprocess.run(..., check=True): CalledProcessError on a non-zero exit
\* status ends main; otherwise the next run_script call follows.
after_exit(c, code) ==
    IF code # 0
      THEN [c EXCEPT !.exits = Append(@, code), !.pc = "failed"]
      ELSE [c EXCEPT !.exits = Append(@, code), !.todo = Tail(@),
                     !.pc = IF Len(c.todo) = 1 THEN "ok" ELSE "run"]

(***************************************************************************)
(* State                                                                   *)
(*   gen   the run of generate_data.main() and the files of DATA_DIR       *)
(*   twin  a second run of generate_data.main() that receives the same     *)
(*         random draws as gen (same seed); NoRun when there is none       *)
(*   db    the directory DATA_DIR and the database file DB_PATH            *)
(*   ing   the run of ingest_data.main(): pc, tables loaded so far (idx),  *)
(*         the connection's uncommitted tables (txn); files are the files  *)
(*         it reads, before the database it found when it started, repeat  *)
(*         whether the run before it read the same files                   *)
(*   qry   the run of query_data.main(): pc and the rows of                *)
(*         top_products_by_revenue                                         *)
(*   cli   the run of run_pipeline.main(): stage, the script files that    *)
(*         exist in SCRIPTS_DIR (present), scripts still to run (todo),    *)
(*         scripts started and their exit statuses in order                *)
(***************************************************************************)
VARIABLES gen, twin, db, ing, qry, cli

vars == <<gen, twin, db, ing, qry, cli>>

NoRun == [NewRun(0, 0) EXCEPT !.pc = "none"]

IngIdle ==
    [pc |-> "idle", idx |-> 0, txn |-> EmptyTables, files |-> NoFiles,
     before |-> NoDb, repeat |-> FALSE]

QryIdle == [pc |-> "idle", top |-> <<>>]

CliIdle ==
    [pc |-> "idle", stage |-> "all", present |-> SCRIPTS, todo |-> <<>>,
     started |-> <<>>, exits |-> <<>>]

\* Clock readings at which a run may start: 2026-10-30 01:00 and 23:00,
\* 2026-10-31 01:00.
StartMoment == 24 * 20756 + 1

Moments == {StartMoment, StartMoment + 22, StartMoment + 24}

\* gen takes the step F; so does twin when it runs.
Lockstep(F(_)) ==
    /\ gen' = F(gen)
    /\ twin' = IF twin.pc = "none" THEN twin ELSE F(twin)
    /\ UNCHANGED <<db, ing, qry, cli>>

(***************************************************************************)
(* Draw ranges.  A profile restricts each random call of the generator to  *)
(* a subset of its range: positions for random.choice / random.sample,     *)
(* values for random.randint; tick holds the hours the clock may have      *)
(* advanced between two readings of datetime.now().                        *)
(***************************************************************************)
\* The whole of main(), few values per draw.
ShallowDraws ==
    [first |-> {1}, last |-> {1}, city |-> {1},
     customer_orders |-> {0, 1, OrdersPerCustomerMax},
     delta_days |-> {0}, hours |-> {0},
     item_count |-> {2}, sample |-> {1, 2}, quantity |-> {QuantityMax},
     review_customer |-> {1, MaxCustomers},
     review_product |-> {1}, rating |-> {RatingMax}, comment |-> {1},
     tick |-> {0}]

(***************************************************************************)
(* generate_data.py: actions of main()                                     *)
(***************************************************************************)
GenerateCustomer(P) ==
    /\ gen.pc = "customers"
    /\ Len(gen.customers) < gen.count
    /\ \E f \in P.first, l \in P.last, c \in P.city :
          Lockstep(LAMBDA g : customers_step(g, FIRST_NAMES[f], LAST_NAMES[l],
                                             CITIES[c]))

GenerateProducts ==
    /\ gen.pc = "customers"
    /\ Len(gen.customers) = gen.count
    /\ Lockstep(LAMBDA g : products_step(g))

NextCustomer(P) ==
    /\ gen.pc = "orders"
    /\ gen.orders_left = 0
    /\ gen.cust_idx < Len(gen.customers)
    /\ \E n \in P.customer_orders :
          Lockstep(LAMBDA g : next_customer_step(g, n))

\* Each run reads its own clock, at or after its previous reading; the
\* draws are the same in both runs.
GenerateOrder(P) ==
    /\ gen.pc = "orders"
    /\ gen.orders_left > 0
    /\ \E d \in P.delta_days, h \in P.hours, k \in P.item_count :
          \E chosen \in Perms(P.sample, k) :
             \E quantity \in [1..k -> P.quantity] :
                \E t1 \in P.tick, t2 \in P.tick :
                   /\ gen' = order_step(gen, gen.now + t1, d, h, chosen, quantity)
                   /\ twin' = IF twin.pc = "none"
                                THEN twin
                                ELSE order_step(twin, twin.now + t2, d, h,
                                                chosen, quantity)
    /\ UNCHANGED <<db, ing, qry, cli>>

OrdersReturn ==
    /\ gen.pc = "orders"
    /\ gen.orders_left = 0
    /\ gen.cust_idx = Len(gen.customers)
    /\ Lockstep(LAMBDA g : orders_return(g))

ReviewAttempt(P) ==
    /\ gen.pc = "reviews"
    /\ gen.attempt < ReviewAttempts
    /\ \E c \in P.review_customer \cap 1..Len(gen.customers),
          p \in P.review_product :
          IF <<gen.customers[c].customer_id, gen.products[p].product_id>>
                \in gen.customer_product_pairs
            THEN Lockstep(LAMBDA g : review_step(g, c, p, 0, ""))
            ELSE \E r \in P.rating, m \in P.comment :
                    Lockstep(LAMBDA g : review_step(g, c, p, r, COMMENTS[m]))

WriteFiles ==
    /\ gen.pc = "reviews"
    /\ gen.attempt = ReviewAttempts
    /\ Lockstep(LAMBDA g : write_step(g))

\* DATA_DIR, made when generate_data.py was loaded, holds no database; no
\* ingest, query or pipeline process runs.
Idle == db = NoDb /\ ing = IngIdle /\ qry = QryIdle /\ cli = CliIdle

Init ==
    /\ gen \in {NewRun(count, StartMoment) : count \in 1..MaxCustomers}
    /\ twin = NoRun
    /\ Idle

Next ==
    \/ GenerateCustomer(ShallowDraws)
    \/ GenerateProducts
    \/ NextCustomer(ShallowDraws)
    \/ GenerateOrder(ShallowDraws)
    \/ OrdersReturn
    \/ ReviewAttempt(ShallowDraws)
    \/ WriteFiles

Spec == Init /\ [][Next]_vars

(***************************************************************************)
(* SpecOrders: main() up to the return of generate_orders, for one         *)
(* customer, with every item count and quantity and a sample drawn from    *)
(* the first MaxSample products of the catalog.                            *)
(***************************************************************************)
MaxSample == 6

OrderDraws ==
    [first |-> {1}, last |-> {1}, city |-> {1},
     customer_orders |-> {0, 1},
     delta_days |-> {DaysBack}, hours |-> {HoursMax},
     item_count |-> 1..ItemCountMax, sample |-> 1..MaxSample,
     quantity |-> 1..QuantityMax,
     review_customer |-> {}, review_product |-> {}, rating |-> {},
     comment |-> {},
     tick |-> {0}]

InitOrders ==
    /\ gen = NewRun(1, StartMoment)
    /\ twin = NoRun
    /\ Idle

NextOrders ==
    \/ GenerateCustomer(OrderDraws)
    \/ GenerateProducts
    \/ NextCustomer(OrderDraws)
    \/ GenerateOrder(OrderDraws)

SpecOrders == InitOrders /\ [][NextOrders]_vars

(***************************************************************************)
(* SpecReviews: main() for customers without orders, with reviews drawn    *)
(* over every customer and the first two products.                         *)
(***************************************************************************)
ReviewDraws ==
    [first |-> {1}, last |-> {1}, city |-> {1},
     customer_orders |-> {0},
     delta_days |-> {}, hours |-> {}, item_count |-> {}, sample |-> {},
     quantity |-> {},
     review_customer |-> 1..MaxCustomers,
     review_product |-> {1, 2}, rating |-> {RatingMax},
     comment |-> {Len(COMMENTS)},
     tick |-> {0}]

NextReviews ==
    \/ GenerateCustomer(ReviewDraws)
    \/ GenerateProducts
    \/ NextCustomer(ReviewDraws)
    \/ OrdersReturn
    \/ ReviewAttempt(ReviewDraws)
    \/ WriteFiles

SpecReviews == Init /\ [][NextReviews]_vars

(***************************************************************************)
(* SpecTwin: two runs of main() with the same seed, hence the same draws,  *)
(* started at any two clock readings.                                      *)
(***************************************************************************)
TwinDraws ==
    [first |-> {1}, last |-> {1}, city |-> {1},
     customer_orders |-> {0, 1},
     delta_days |-> {0, DaysBack}, hours |-> {0, HoursMax},
     item_count |-> {1}, sample |-> {1}, quantity |-> {1},
     review_customer |-> 1..MaxCustomers,
     review_product |-> {1}, rating |-> {1}, comment |-> {1},
     tick |-> {0, 1}]

InitTwin ==
    /\ \E count \in 1..MaxCustomers, now1 \in Moments, now2 \in Moments :
          /\ gen = NewRun(count, now1)
          /\ twin = NewRun(count, now2)
    /\ Idle

NextTwin ==
    \/ GenerateCustomer(TwinDraws)
    \/ GenerateProducts
    \/ NextCustomer(TwinDraws)
    \/ GenerateOrder(TwinDraws)
    \/ OrdersReturn
    \/ ReviewAttempt(TwinDraws)
    \/ WriteFiles

SpecTwin == InitTwin /\ [][NextTwin]_vars

(***************************************************************************)
(* ingest_data.py: actions of main()                                       *)
(***************************************************************************)
\* A fresh process running ingest_data.py.
start_ingest ==
    [pc |-> "unlink", idx |-> 0, txn |-> EmptyTables, files |-> gen.files,
     before |-> db, repeat |-> ing.pc # "idle" /\ ing.files = gen.files]

IngestUnlink ==
    /\ ing.pc = "unlink"
    /\ db' = unlink(db)
    /\ ing' = [ing EXCEPT !.pc = "create"]
    /\ UNCHANGED <<gen, twin, qry, cli>>

\* Without DATA_DIR sqlite3.connect raises and the process ends; no file
\* is created.
IngestCreate ==
    /\ ing.pc = "create"
    /\ IF db.dir
         THEN /\ db' = create_tables(db)
              /\ ing' = [ing EXCEPT !.pc = "load", !.idx = 0, !.txn = db'.tables]
         ELSE /\ db' = db
              /\ ing' = [ing EXCEPT !.pc = "failed"]
    /\ UNCHANGED <<gen, twin, qry, cli>>

\* One table of the mapping; an exception leaves the `with` block, which
\* rolls the open transaction back, and ends the process.
IngestLoad ==
    /\ ing.pc = "load"
    /\ ing.idx < Len(TABLES)
    /\ LET table == TABLES[ing.idx + 1]
           res   == load_table(ing.txn, table, ing.files[table])
       IN  ing' = IF res.ok
                    THEN [ing EXCEPT !.txn = res.tables, !.idx = @ + 1]
                    ELSE [ing EXCEPT !.txn = db.tables, !.pc = "failed"]
    /\ UNCHANGED <<gen, twin, db, qry, cli>>

IngestCommit ==
    /\ ing.pc = "load"
    /\ ing.idx = Len(TABLES)
    /\ db' = [db EXCEPT !.tables = ing.txn]
    /\ ing' = [ing EXCEPT !.pc = "done"]
    /\ UNCHANGED <<gen, twin, qry, cli>>

(***************************************************************************)
(* query_data.py: main().  connect raises FileNotFoundError when DB_PATH   *)
(* does not exist.  customer_order_summary and average_rating_by_product   *)
(* only print; the rows of top_products_by_revenue are kept in qry.top.    *)
(***************************************************************************)
QueryRun ==
    /\ qry.pc = "start"
    /\ IF ~db.exists
         THEN qry' = [qry EXCEPT !.pc = "failed"]
         ELSE \E first \in {"low", "high"} :
                 qry' = [pc |-> "done",
                         top |-> top_products_by_revenue(db.tables, first)]
    /\ UNCHANGED <<gen, twin, db, ing, cli>>

(***************************************************************************)
(* run_pipeline.py: actions of main()                                      *)
(***************************************************************************)
\* A new invocation `run_pipeline.py <stage>`, with some of the script
\* files in SCRIPTS_DIR.
Invoke ==
    /\ cli.pc \in {"idle", "ok", "failed"}
    /\ \E stage \in STAGES, present \in SUBSET SCRIPTS :
          cli' = [pc |-> "run", stage |-> stage, present |-> present,
                  todo |-> scripts_of(stage), started |-> <<>>, exits |-> <<>>]
    /\ UNCHANGED <<gen, twin, db, ing, qry>>

\* The call run_script(script) that is next in main / run_all.
Starts(script) ==
    /\ cli.pc = "run"
    /\ Head(cli.todo) = script
    /\ cli' = run_script(cli, script)

\* run_script("generate_data.py"): a fresh process, which makes DATA_DIR
\* when it loads the module; the files of the previous run stay until
\* this one writes.
RunGenerate ==
    /\ Starts("generate_data.py")
    /\ IF "generate_data.py" \in cli.present
         THEN /\ \E count \in 1..MaxCustomers :
                    gen' = [NewRun(count, StartMoment) EXCEPT !.files = gen.files]
              /\ db' = mkdir(db)
         ELSE UNCHANGED <<gen, db>>
    /\ UNCHANGED <<twin, ing, qry>>

\* run_script("ingest_data.py").
RunIngest ==
    /\ Starts("ingest_data.py")
    /\ ing' = IF "ingest_data.py" \in cli.present THEN start_ingest ELSE ing
    /\ UNCHANGED <<gen, twin, db, qry>>

\* run_script("query_data.py").
RunQuery ==
    /\ Starts("query_data.py")
    /\ qry' = IF "query_data.py" \in cli.present
                 THEN [pc |-> "start", top |-> <<>>]
                 ELSE qry
    /\ UNCHANGED <<gen, twin, db, ing>>

\* The exit status of the script that was started last, once it has ended:
\* 1 after an uncaught exception, else 0.
ExitStatus ==
    LET script == cli.started[Len(cli.started)]
    IN  CASE script = "generate_data.py" ->
                IF gen.pc = "done" THEN {0} ELSE {}
          [] script = "ingest_data.py" ->
                IF ing.pc = "done" THEN {0}
                ELSE IF ing.pc = "failed" THEN {1} ELSE {}
          [] script = "query_data.py" ->
                IF qry.pc = "done" THEN {0}
                ELSE IF qry.pc = "failed" THEN {1} ELSE {}

\* The child process is gone; the files and the database stay.
ScriptExit ==
    /\ cli.pc = "wait"
    /\ \E code \in ExitStatus : cli' = after_exit(cli, code)
    /\ gen' = [NoRun EXCEPT !.files = gen.files]
    /\ ing' = IngIdle
    /\ qry' = QryIdle
    /\ UNCHANGED <<twin, db>>

(***************************************************************************)
(* SpecPipeline: invocations of run_pipeline.py, one after the other, in   *)
(* a checkout that starts without DATA_DIR; each invocation finds some of  *)
(* the three script files.                                                 *)
(***************************************************************************)
PipelineDraws ==
    [first |-> {1}, last |-> {1}, city |-> {1},
     customer_orders |-> {1},
     delta_days |-> {0}, hours |-> {0},
     item_count |-> {1}, sample |-> {1}, quantity |-> {1},
     review_customer |-> {1},
     review_product |-> {1}, rating |-> {RatingMax}, comment |-> {1},
     tick |-> {0, 1}]

InitPipeline ==
    /\ gen = NoRun
    /\ twin = NoRun
    /\ db = NoDir
    /\ ing = IngIdle /\ qry = QryIdle /\ cli = CliIdle

NextPipeline ==
    \/ Invoke
    \/ RunGenerate
    \/ RunIngest
    \/ RunQuery
    \/ ScriptExit
    \/ GenerateCustomer(PipelineDraws)
    \/ GenerateProducts
    \/ NextCustomer(PipelineDraws)
    \/ GenerateOrder(PipelineDraws)
    \/ OrdersReturn
    \/ ReviewAttempt(PipelineDraws)
    \/ WriteFiles
    \/ IngestUnlink
    \/ IngestCreate
    \/ IngestLoad
    \/ IngestCommit
    \/ QueryRun

SpecPipeline == InitPipeline /\ [][NextPipeline]_vars

(***************************************************************************)
(* SpecIngest: one run of generate_data.py, then ingest_data.py any number *)
(* of times, on a directory that holds no database or the database of an   *)
(* earlier pipeline run.                                                   *)
(***************************************************************************)
IngestDraws ==
    [first |-> {1, 2}, last |-> {1}, city |-> {1},
     customer_orders |-> {0, 1},
     delta_days |-> {0}, hours |-> {0},
     item_count |-> {1}, sample |-> {1}, quantity |-> {1},
     review_customer |-> {1, 2},
     review_product |-> {1}, rating |-> {RatingMax}, comment |-> {1},
     tick |-> {0}]

\* An earlier run of generate_data.py: two customers, two orders of the
\* first and one of the second, one review.
EarlierRun ==
    LET g1 == customers_step(NewRun(2, StartMoment - 24), "Taylor", "Brown", "Austin")
        g2 == customers_step(g1, "Riley", "Jones", "Boston")
        g3 == next_customer_step(products_step(g2), 2)
        g4 == order_step(g3, g3.now, 3, 4, <<3, 4>>, <<1, 2>>)
        g5 == order_step(g4, g4.now, 0, 0, <<5>>, <<3>>)
        g6 == order_step(next_customer_step(g5, 1), g5.now + 1, 7, 0, <<6>>, <<1>>)
        g7 == review_step(orders_return(g6), 2, 2, 4, COMMENTS[2])
    IN  write_step(g7)

\* The database the ingest of EarlierRun's files left.
EarlierDb ==
    [dir |-> TRUE, exists |-> TRUE, tables |-> fresh_ingest(EarlierRun.files)]

\* `python ingest_data.py`, once generate_data.py has ended and no ingest
\* is running.
IngestStart ==
    /\ gen.pc = "done"
    /\ ing.pc \in {"idle", "done", "failed"}
    /\ ing' = start_ingest
    /\ UNCHANGED <<gen, twin, db, qry, cli>>

InitIngest ==
    /\ gen \in {NewRun(count, StartMoment) : count \in 1..MaxCustomers}
    /\ twin = NoRun
    /\ db \in {NoDb, EarlierDb}
    /\ ing = IngIdle /\ qry = QryIdle /\ cli = CliIdle

NextIngest ==
    \/ GenerateCustomer(IngestDraws)
    \/ GenerateProducts
    \/ NextCustomer(IngestDraws)
    \/ GenerateOrder(IngestDraws)
    \/ OrdersReturn
    \/ ReviewAttempt(IngestDraws)
    \/ WriteFiles
    \/ IngestStart
    \/ IngestUnlink
    \/ IngestCreate
    \/ IngestLoad
    \/ IngestCommit

SpecIngest == InitIngest /\ [][NextIngest]_vars

(***************************************************************************)
(* SpecQuery: query_data.py on databases that hold the first products of   *)
(* the catalog and, for each product, no or one order item; each of the    *)
(* first DeepProducts products may have a second one.                      *)
(***************************************************************************)
MaxProducts == 11

DeepProducts == 3

\* A customer and an order for the order items to refer to.
BaseTables ==
    [EmptyTables EXCEPT
        !.customers = {<<1, "Alex Smith", "alex.smith@example.com", "New York">>},
        !.orders = {<<1, 1, strftime(StartMoment \div 24), ParseFloat(1999)>>}]

\* One more line of products.csv, loaded as ingest_data.py loads it.
DatasetAddProduct ==
    /\ qry.pc = "start"
    /\ Cardinality(db.tables.products) < MaxProducts
    /\ Cardinality(db.tables.products) < Len(generate_products)
    /\ LET n    == Cardinality(db.tables.products) + 1
           file == write_csv(ProductFields, <<generate_products[n]>>)
       IN  db' = [db EXCEPT !.tables = load_table(db.tables, "products", file).tables]
    /\ UNCHANGED <<gen, twin, ing, qry, cli>>

\* One more line of order_items.csv, for the product added last.
DatasetAddItem ==
    /\ qry.pc = "start"
    /\ db.tables.products # {}
    /\ LET pid  == Cardinality(db.tables.products)
           mine == {i \in db.tables.order_items : i[3] = pid}
           id   == Cardinality(db.tables.order_items) + 1
       IN  /\ Cardinality(mine) < (IF pid <= DeepProducts THEN 2 ELSE 1)
           /\ \E quantity \in {QuantityMax - Cardinality(mine)} :
                 db' = [db EXCEPT !.tables =
                           insert_or_replace(db.tables, "order_items",
                               cast_row("order_items",
                                   [order_item_id |-> Str(id), order_id |-> Str(1),
                                    product_id |-> Str(pid),
                                    quantity |-> Str(quantity)])).tables]
    /\ UNCHANGED <<gen, twin, ing, qry, cli>>

InitQuery ==
    /\ gen = NoRun
    /\ twin = NoRun
    /\ db = [dir |-> TRUE, exists |-> TRUE, tables |-> BaseTables]
    /\ ing = IngIdle
    /\ qry = [pc |-> "start", top |-> <<>>]
    /\ cli = CliIdle

NextQuery ==
    \/ DatasetAddProduct
    \/ DatasetAddItem
    \/ QueryRun

SpecQuery == InitQuery /\ [][NextQuery]_vars

(***************************************************************************)
(* Properties                                                              *)
(***************************************************************************)
RECURSIVE SumSeq(_)
SumSeq(q) == IF q = <<>> THEN 0 ELSE Head(q) + SumSeq(Tail(q))

Min(a, b) == IF a < b THEN a ELSE b

\* The order_items rows of an order, in file order.
ItemsOf(g, order_id) == SelectSeq(g.order_items, LAMBDA i : i.order_id = order_id)

\* The price string of a product, in cents.
PriceOf(g, product_id) ==
    (CHOOSE p \in Range(g.products) : p.product_id = product_id).price

LineTotals(g, order_id) ==
    LET items == ItemsOf(g, order_id)
    IN  [k \in 1..Len(items) |-> items[k].quantity * PriceOf(g, items[k].product_id)]

\* C1: every generated order's total_amount equals the sum over its
\* order_items rows of quantity x unit price, in whole cents.
C1_TotalIsSumOfLines ==
    \A o \in Range(gen.orders) :
        o.total_amount = SumSeq(LineTotals(gen, o.order_id))

\* An order of four items, one of them with quantity 3, has been generated.
C1_Witness ==
    \E o \in Range(gen.orders) :
        /\ Len(ItemsOf(gen, o.order_id)) = 4
        /\ \E i \in Range(ItemsOf(gen, o.order_id)) : i.quantity = 3
        /\ o.total_amount > 0

\* The foreign keys of the five row lists.
KeysResolve(customers, products, orders, order_items, reviews) ==
    /\ \A o \in Range(orders) :
          \E c \in Range(customers) : c.customer_id = o.customer_id
    /\ \A i \in Range(order_items) :
          /\ \E o \in Range(orders) : o.order_id = i.order_id
          /\ \E p \in Range(products) : p.product_id = i.product_id
    /\ \A r \in Range(reviews) :
          /\ \E c \in Range(customers) : c.customer_id = r.customer_id
          /\ \E p \in Range(products) : p.product_id = r.product_id

\* The rows of a written file with the id columns read back as integers.
IdsOf(file) ==
    LET rows == load_csv_rows(file)
    IN  [i \in DOMAIN rows |->
            [name \in DOMAIN rows[i] \cap IntFields |-> ParseInt(rows[i][name])]]

\* C2: in the output of a generation run every foreign key resolves: of
\* orders to customers, of order items to orders and products, of reviews
\* to customers and products; in the lists main() holds and in the files
\* it writes.
C2_ForeignKeysResolve ==
    /\ KeysResolve(gen.customers, gen.products, gen.orders, gen.order_items,
                   gen.reviews)
    /\ gen.pc = "done" =>
          KeysResolve(IdsOf(gen.files.customers), IdsOf(gen.files.products),
                      IdsOf(gen.files.orders), IdsOf(gen.files.order_items),
                      IdsOf(gen.files.reviews))

\* A finished run with a customer without orders, a customer with orders,
\* and a review.
C2_Witness ==
    /\ gen.pc = "done"
    /\ \E c \in Range(gen.customers) :
          \A o \in Range(gen.orders) : o.customer_id # c.customer_id
    /\ gen.order_items # <<>>
    /\ gen.reviews # <<>>

\* C3: generate_reviews makes exactly 28 attempts, each attempt counts
\* whether it is accepted or skipped, a skipped attempt changes nothing
\* else, the accepted reviews never hold a (customer_id, product_id) pair
\* twice, they number at most 28, and review_id runs 1..(number accepted).
C3_ReviewsInv ==
    /\ \A i, j \in DOMAIN gen.reviews :
          (gen.reviews[i].customer_id = gen.reviews[j].customer_id
             /\ gen.reviews[i].product_id = gen.reviews[j].product_id) => i = j
    /\ Len(gen.reviews) <= 28
    /\ Len(gen.reviews) <= gen.attempt
    /\ gen.attempt <= 28
    /\ \A i \in DOMAIN gen.reviews : gen.reviews[i].review_id = i
    /\ gen.pc = "done" => gen.attempt = 28

C3_ReviewsStep ==
    (gen.pc = "reviews" /\ gen'.pc = "reviews") =>
        /\ gen'.attempt = gen.attempt + 1
        /\ \/ gen'.reviews = gen.reviews
           \/ /\ Len(gen'.reviews) = Len(gen.reviews) + 1
              /\ SubSeq(gen'.reviews, 1, Len(gen.reviews)) = gen.reviews

C3_Reviews == []C3_ReviewsInv /\ [][C3_ReviewsStep]_vars

\* All 28 attempts are done, some were skipped, several were accepted.
C3_Witness ==
    /\ gen.attempt = 28
    /\ Len(gen.reviews) >= 2
    /\ Len(gen.reviews) < 28

\* C4: every generated order has between 1 and 4 order items, their
\* product_id values are pairwise distinct and each quantity is 1, 2 or 3.
C4_OrderItems ==
    \A o \in Range(gen.orders) :
        LET items == ItemsOf(gen, o.order_id)
        IN  /\ Len(items) \in 1..4
            /\ \A i, j \in DOMAIN items :
                  items[i].product_id = items[j].product_id => i = j
            /\ \A i \in DOMAIN items : items[i].quantity \in {1, 2, 3}

\* An order of four items with all three quantities has been generated.
C4_Witness ==
    \E o \in Range(gen.orders) :
        LET items == ItemsOf(gen, o.order_id)
        IN  Len(items) = 4 /\ {items[i].quantity : i \in DOMAIN items} = {1, 2, 3}

\* The number of (name, price) pairs of the catalog.
CatalogSize == SumSeq([c \in DOMAIN PRODUCT_CATEGORIES |-> Len(PRODUCT_CATEGORIES[c][2])])

\* C5: customer_id is 1..N, product_id 1..(catalog size), order_id
\* 1..(number of orders), order_item_id 1..(number of order items), each
\* in generation order; a smaller order_id never belongs to a larger
\* customer_id and a smaller order_item_id never to a larger order_id.
C5_SequentialIds ==
    /\ \A i \in DOMAIN gen.customers : gen.customers[i].customer_id = i
    /\ gen.pc # "customers" => Len(gen.customers) = gen.count
    /\ \A i \in DOMAIN gen.products : gen.products[i].product_id = i
    /\ gen.pc # "customers" => Len(gen.products) = CatalogSize
    /\ \A i \in DOMAIN gen.orders : gen.orders[i].order_id = i
    /\ \A i \in DOMAIN gen.order_items : gen.order_items[i].order_item_id = i
    /\ \A i, j \in DOMAIN gen.orders :
          gen.orders[i].order_id < gen.orders[j].order_id
             => gen.orders[i].customer_id <= gen.orders[j].customer_id
    /\ \A i, j \in DOMAIN gen.order_items :
          gen.order_items[i].order_item_id < gen.order_items[j].order_item_id
             => gen.order_items[i].order_id <= gen.order_items[j].order_id

\* A finished run with orders of two customers, one of them with two orders.
C5_Witness ==
    /\ gen.pc = "done"
    /\ Len(gen.orders) >= 3
    /\ Len(gen.order_items) > Len(gen.orders)
    /\ \E i, j \in DOMAIN gen.orders :
          gen.orders[i].customer_id # gen.orders[j].customer_id

\* C6: after ingestion has loaded customers.csv the customers table holds
\* exactly one row per generated customer, with the same customer_id, name,
\* email and city.
C6_CustomersRoundTrip ==
    (ing.pc = "load" /\ ing.idx >= 1) =>
        /\ Cardinality(ing.txn.customers) = Len(gen.customers)
        /\ \A c \in Range(gen.customers) :
              <<c.customer_id, c.name, c.email, c.city>> \in ing.txn.customers

\* C7: two runs of the generator with the same seed write the same five
\* files, whenever each run is started.
C7_SameSeedSameFiles ==
    (gen.pc = "done" /\ twin.pc = "done") => gen.files = twin.files

\* C8: when a run of ingest_data.py ends, the database holds what an
\* ingest of the same files into no database leaves, whatever it held
\* before; a run on the files the run before it read leaves the database
\* as it found it.
C8_IngestIdempotent ==
    ing.pc \in {"done", "failed"} =>
        /\ db = [dir |-> TRUE, exists |-> TRUE,
                 tables |-> fresh_ingest(ing.files)]
        /\ ing.repeat => db = ing.before

\* A second run in a row on the same files has ended with orders and
\* reviews in the store.
C8_Witness ==
    /\ ing.pc = "done"
    /\ ing.repeat
    /\ db.tables.orders # {}
    /\ db.tables.reviews # {}

\* C9: the scripts started are the stage's scripts in call order (for
\* `all`: generate, ingest, query; for a single stage: that one script),
\* each one started only after every script before it has exited with
\* status zero; a non-zero exit status ends the pipeline as failed with no
\* further script started; the pipeline ends with every script of the
\* stage started, except after a non-zero exit status or before a script
\* whose file is missing, where it ends as failed; and a child process
\* runs only while the pipeline waits for it.
C9_PipelineOrder ==
    LET plan == scripts_of(cli.stage)
        s    == cli.started
        e    == cli.exits
    IN  /\ cli.pc # "idle" =>
              /\ Len(s) <= Len(plan)
              /\ s = SubSeq(plan, 1, Len(s))
              /\ Len(e) = (IF cli.pc = "wait" THEN Len(s) - 1 ELSE Len(s))
              /\ \A i \in DOMAIN e : i < Len(s) => e[i] = 0
              /\ (\E i \in DOMAIN e : e[i] # 0) => cli.pc = "failed"
              /\ cli.pc = "failed" =>
                    \/ e # <<>> /\ e[Len(e)] # 0
                    \/ Len(s) < Len(plan) /\ plan[Len(s) + 1] \notin cli.present
              /\ cli.pc = "ok" => s = plan
        /\ gen.pc \notin {"none", "done"} =>
              cli.pc = "wait" /\ s[Len(s)] = "generate_data.py"
        /\ ing.pc # "idle" => cli.pc = "wait" /\ s[Len(s)] = "ingest_data.py"
        /\ qry.pc # "idle" => cli.pc = "wait" /\ s[Len(s)] = "query_data.py"

\* Stage `all` has failed in the ingest script: two scripts were started.
C9_Witness ==
    /\ cli.stage = "all"
    /\ cli.pc = "failed"
    /\ cli.started = <<"generate_data.py", "ingest_data.py">>
    /\ cli.exits = <<0, 1>>

\* The products of the store that some order item refers to.
SoldProducts == {p \in db.tables.products : \E i \in db.tables.order_items : i[3] = p[1]}

RevenueDescending ==
    \A i, j \in DOMAIN qry.top : i < j => qry.top[i].revenue >= qry.top[j].revenue

\* C10 as stated: the top-products query returns min(10, number of
\* products) rows in descending order of revenue.
C10_RowPerProduct ==
    qry.pc = "done" =>
        /\ Len(qry.top) = Min(10, Cardinality(db.tables.products))
        /\ RevenueDescending

\* C10 amended: the top-products query returns min(10, number of products
\* with at least one order item) rows, of pairwise different products, in
\* descending order of revenue, where a product's revenue is the sum of
\* quantity x price over its order items.
C10_RowPerSoldProduct ==
    qry.pc = "done" =>
        /\ Len(qry.top) = Min(10, Cardinality(SoldProducts))
        /\ RevenueDescending
        /\ \A i, j \in DOMAIN qry.top :
              qry.top[i].product_id = qry.top[j].product_id => i = j
        /\ \A r \in Range(qry.top) :
              \E p \in SoldProducts :
                 /\ p[1] = r.product_id
                 /\ r.revenue =
                       SumSeq([k \in 1..Cardinality(db.tables.order_items) |->
                          LET i == CHOOSE x \in db.tables.order_items : x[1] = k
                          IN  IF i[3] = p[1] THEN i[4] * FormatCents(p[4]) ELSE 0])
        /\ \A p \in SoldProducts :
              (\E r \in Range(qry.top) : r.product_id = p[1])
              \/ (Len(qry.top) = 10 /\ \A r \in Range(qry.top) :
                     r.revenue >= (CHOOSE x \in revenue_rows(db.tables) :
                                      x.product_id = p[1]).revenue)

\* The query has run on three products of which one has no order item.
C10_Witness ==
    /\ qry.pc = "done"
    /\ Cardinality(db.tables.products) = 3
    /\ Cardinality(SoldProducts) = 2
    /\ Len(qry.top) = 2
    /\ qry.top[1].revenue > qry.top[2].revenue

====
